---- MODULE Spec2Model ----
(***************************************************************************)
(* Model of the relational-model layer of yep:                             *)
(*   - the method registry of yep/models/methods.go (override chains),     *)
(*   - the SQL compiler of yep/models/queries.go (conditions, joins,       *)
(*     SELECT, INSERT, UPDATE, DELETE),                                    *)
(*   - the views collection of the ir package (AddView and its readers).   *)
(* SQL text is modelled as a sequence of tokens (strings); whitespace is   *)
(* the only thing the token sequence leaves out.                           *)
(***************************************************************************)
EXTENDS Integers, Sequences, FiniteSets, TLC

VARIABLES
    layers,        \* heap of methodLayer structs; a *methodLayer is an index
    cache,         \* methodsCollection.cache, per model
    cacheByFunc,   \* methodsCollection.cacheByFunc, per model
    bootstrapped,  \* methodsCollection.bootstrapped, per model
    registered,    \* history: layers of each method in registration order
    lastErr,       \* outcome of the last DeclareMethod call
    pc,            \* position of the query compilation: "in" or "done"
    task,          \* the input of the query compilation
    out,           \* the result of the query compilation
    views,         \* ViewsCollection.views: the view of each id
    orderedViews,  \* ViewsCollection.orderedViews: the list of each model
    lock,          \* the goroutine inside Lock()..Unlock(), or "none"
    wpc,           \* position of each goroutine calling AddView
    wv,            \* argument v of the AddView call of each goroutine
    windex,        \* local variable index of the AddView call of each goroutine
    added,         \* history: the views of the AddView calls that returned
    nCalls,        \* history: the number of AddView calls started
    lastRead       \* history: the last call of a reader and what it observed

vars == <<layers, cache, cacheByFunc, bootstrapped, registered, lastErr, pc, task, out,
          views, orderedViews, lock, wpc, wv, windex, added, nCalls, lastRead>>
regVars == <<layers, cache, cacheByFunc, bootstrapped, registered, lastErr>>
qVars == <<pc, task, out>>
viewVars == <<views, orderedViews, lock, wpc, wv, windex, added, nCalls, lastRead>>

(***************************************************************************)
(* Bounds                                                                  *)
(***************************************************************************)
MaxLayers == 4      \* layers allocated by DeclareMethod
MaxNodes == 3       \* condValue nodes of a condition tree
MaxPathLen == 3     \* segments of one field path
MaxPaths == 2       \* field paths given to tablesSQL
MaxTableSegs == 4   \* segments of all the paths given to tablesSQL
MaxStmtNodes == 2   \* condValue nodes of the condition of a statement
MaxCalls == 3       \* AddView calls

(***************************************************************************)
(* Method registry (methods.go)                                            *)
(***************************************************************************)
Nil == 0
NoMethod == [name |-> "", mi |-> "", methodType |-> "", topLayer |-> Nil,
             nextLayer |-> <<>>]

\* Models known to modelRegistry, and a name it does not know.
RegModels == {"User"}
CallModels == RegModels \cup {"Ghost"}
MethodNames == {"Write", "Read"}

\* Values passed as fnct. reflect.Type of each: two functions share T1.
FuncValues == {"f1", "f2", "g1", "h1"}
NonFuncValues == {"notfunc"}
FnctValues == FuncValues \cup NonFuncValues
FuncType == [f1 |-> "T1", f2 |-> "T1", g1 |-> "T2", h1 |-> "T3", notfunc |-> "int"]
\* Function types whose first argument is RecordSet.
RecordSetFirst == {"T1", "T2"}

get(mc, methodName) == mc[methodName]
exists(mc, methodName) == mc[methodName] # NoMethod

getByFunc(mcByFunc, fnct) ==
    IF fnct \in DOMAIN mcByFunc THEN mcByFunc[fnct] ELSE Nil

\* cacheByFunc[fnVal] = methLayer
addLayer(mcByFunc, fnVal, methLayer) ==
    [f \in (DOMAIN mcByFunc) \cup {fnVal} |->
        IF f = fnVal THEN methLayer ELSE mcByFunc[f]]

getNextLayer(methInfo, methodLayer) ==
    IF methodLayer \in DOMAIN methInfo.nextLayer
    THEN methInfo.nextLayer[methodLayer] ELSE Nil

addMethodLayer_selfLoop(methInfo, ml) ==
    [methInfo EXCEPT
        !.nextLayer = [l \in (DOMAIN methInfo.nextLayer) \cup {ml} |->
                          IF l = ml THEN ml ELSE methInfo.nextLayer[l]],
        !.topLayer = ml]

\* The methodInfo after addMethodLayer pushed the freshly allocated layer ml.
addMethodLayer(methInfo, ml) ==
    [methInfo EXCEPT
        !.nextLayer = [l \in (DOMAIN methInfo.nextLayer) \cup {ml} |->
                          IF l = ml THEN methInfo.topLayer
                          ELSE methInfo.nextLayer[l]],
        !.topLayer = ml]

newMethodInfo(mi, methodName, val, ml) ==
    [name |-> methodName, mi |-> mi, methodType |-> FuncType[val],
     topLayer |-> ml, nextLayer |-> <<>>]

hasRecordSetFirst(val) == FuncType[val] \in RecordSetFirst

signatureMatches_any(methInfo, val) == TRUE

signatureMatches(methInfo, val) == methInfo.methodType = FuncType[val]

isBootstrapped_never(modelName) == FALSE

isBootstrapped(modelName) == bootstrapped[modelName]

Fail(err) == /\ lastErr' = err
             /\ UNCHANGED <<layers, cache, cacheByFunc, bootstrapped, registered>>

DeclareMethod(modelName, methodName, fnct) ==
    /\ UNCHANGED <<qVars, viewVars>>
    /\ IF modelName \notin RegModels THEN Fail("unknown model")
       ELSE IF isBootstrapped(modelName) THEN Fail("bootstrapped")
       ELSE IF fnct \notin FuncValues THEN Fail("not a function")
       ELSE IF exists(cache[modelName], methodName)
       THEN IF ~signatureMatches(get(cache[modelName], methodName), fnct)
            THEN Fail("signature")
            ELSE /\ Len(layers) < MaxLayers
                 /\ LET ml == Len(layers) + 1 IN
                    /\ layers' = Append(layers,
                          [methInfo |-> <<modelName, methodName>>, funcValue |-> fnct])
                    /\ cache' = [cache EXCEPT ![modelName][methodName] =
                                    addMethodLayer(@, ml)]
                    /\ cacheByFunc' = [cacheByFunc EXCEPT ![modelName] =
                                          addLayer(@, fnct, ml)]
                    /\ registered' = [registered EXCEPT ![modelName][methodName] =
                                         Append(@, ml)]
                 /\ lastErr' = "ok"
                 /\ UNCHANGED bootstrapped
       ELSE IF ~hasRecordSetFirst(fnct) THEN Fail("no RecordSet")
       ELSE /\ Len(layers) < MaxLayers
            /\ LET ml == Len(layers) + 1 IN
               /\ layers' = Append(layers,
                     [methInfo |-> <<modelName, methodName>>, funcValue |-> fnct])
               /\ cache' = [cache EXCEPT ![modelName][methodName] =
                               newMethodInfo(modelName, methodName, fnct, ml)]
               /\ cacheByFunc' = [cacheByFunc EXCEPT ![modelName] =
                                     addLayer(@, fnct, ml)]
               /\ registered' = [registered EXCEPT ![modelName][methodName] =
                                    Append(@, ml)]
            /\ lastErr' = "ok"
            /\ UNCHANGED bootstrapped

\* BootStrap freezes the method collection of every model.
BootStrap ==
    /\ \E m \in RegModels : ~bootstrapped[m]
    /\ bootstrapped' = [m \in RegModels |-> TRUE]
    /\ UNCHANGED <<layers, cache, cacheByFunc, registered, lastErr>>
    /\ UNCHANGED <<qVars, viewVars>>

RegInit ==
    /\ layers = <<>>
    /\ cache = [m \in RegModels |-> [n \in MethodNames |-> NoMethod]]
    /\ cacheByFunc = [m \in RegModels |-> <<>>]
    /\ bootstrapped = [m \in RegModels |-> FALSE]
    /\ registered = [m \in RegModels |-> [n \in MethodNames |-> <<>>]]
    /\ lastErr = "ok"

(***************************************************************************)
(* Field/Model catalog read by the query compiler                          *)
(***************************************************************************)
QModels == {"User", "Profile"}
tableName == [User |-> "user", Profile |-> "profile"]

NoField == [model |-> "", name |-> "", json |-> "", relatedModel |-> "",
            required |-> FALSE]

\* relatedModel "" is the nil *modelInfo of a field that is no relation.
FieldInfos == {
    [model |-> "User", name |-> "Name", json |-> "name",
     relatedModel |-> "", required |-> TRUE],
    [model |-> "User", name |-> "Age", json |-> "age",
     relatedModel |-> "", required |-> FALSE],
    [model |-> "User", name |-> "Profile", json |-> "profile_id",
     relatedModel |-> "Profile", required |-> TRUE],
    [model |-> "User", name |-> "Manager", json |-> "manager_id",
     relatedModel |-> "User", required |-> FALSE],
    [model |-> "User", name |-> "Creator", json |-> "creator_id",
     relatedModel |-> "User", required |-> TRUE],
    [model |-> "Profile", name |-> "City", json |-> "city",
     relatedModel |-> "", required |-> FALSE] }

\* fields.get: the field of model mi with this name or this JSON name.
fieldsGet(mi, k) ==
    LET found == {fi \in FieldInfos : fi.model = mi /\ (fi.name = k \/ fi.json = k)}
    IN IF found = {} THEN NoField ELSE CHOOSE fi \in found : TRUE

sqlSep == "__"

quoteTableName(t) == "\"" \o t \o "\""

\* operatorSQL of the adapter: the SQL of the operator with its placeholder,
\* and the argument handed to the driver.
operatorSQL(operator, arg) ==
    [sql |-> IF operator = "in" THEN <<"IN", "(", "?", ")">> ELSE <<operator, "?">>,
     arg |-> arg]

RECURSIVE jsonizeExpr(_, _)
\* jsonizeExpr: each segment replaced by the JSON name of the field it names,
\* walking the relations; a segment that names no field is left as it is.
jsonizeExpr(mi, exprs) ==
    IF exprs = <<>> THEN <<>>
    ELSE LET fi == fieldsGet(mi, exprs[1]) IN
         IF fi = NoField THEN exprs
         ELSE <<fi.json>> \o
              (IF fi.relatedModel = "" THEN Tail(exprs)
               ELSE jsonizeExpr(fi.relatedModel, Tail(exprs)))

(***************************************************************************)
(* Query compiler (queries.go)                                             *)
(***************************************************************************)
\* A panic (tools.LogAndPanic or a runtime panic): nothing is returned.
Panic == [ok |-> FALSE, sql |-> <<>>, args |-> <<>>, joins |-> <<>>]
Returns(sql, args, joins) == [ok |-> TRUE, sql |-> sql, args |-> args, joins |-> joins]

innerJoinOf_always(fi) == TRUE

\* var innerJoin bool; if fi.required { innerJoin = true }
innerJoinOf(fi) == fi.required

RECURSIVE generateTableJoinsLoop(_, _, _, _, _, _)
\* The loop of generateTableJoins from segment i on. otherTable holds the
\* alias of the tableJoin the pointer refers to.
generateTableJoinsLoop(fieldExprs, i, curMI, curTJ, alias, joins) ==
    IF i > Len(fieldExprs) THEN Returns(<<>>, <<>>, joins)
    ELSE LET fi == fieldsGet(curMI, fieldExprs[i]) IN
         IF fi = NoField THEN Panic
         ELSE IF fi.relatedModel = "" \/ i = Len(fieldExprs)
         THEN Returns(<<>>, <<>>, joins)
         ELSE LET newAlias == alias \o sqlSep \o tableName[fi.relatedModel]
                  nextTJ == [tableName |-> quoteTableName(tableName[fi.relatedModel]),
                             joined |-> TRUE,
                             innerJoin |-> innerJoinOf(fi),
                             field |-> "id",
                             otherTable |-> curTJ.alias,
                             otherField |-> fieldExprs[i],
                             alias |-> quoteTableName(newAlias)]
              IN generateTableJoinsLoop(fieldExprs, i + 1, fi.relatedModel, nextTJ,
                                        newAlias, Append(joins, nextTJ))

currentTJ(mi) ==
    [tableName |-> quoteTableName(tableName[mi]), joined |-> FALSE,
     innerJoin |-> FALSE, field |-> "", otherTable |-> "", otherField |-> "",
     alias |-> quoteTableName(tableName[mi])]

generateTableJoins(mi, fieldExprs) ==
    generateTableJoinsLoop(fieldExprs, 1, mi, currentTJ(mi), tableName[mi],
                           <<currentTJ(mi)>>)

RECURSIVE Join(_, _)
\* strings.Join
Join(strs, sep) ==
    IF strs = <<>> THEN ""
    ELSE IF Len(strs) = 1 THEN strs[1]
    ELSE strs[1] \o sep \o Join(Tail(strs), sep)

\* The text is the sequence of tokens of the formatted string.
joinedFieldExpression(mi, exprs, withAlias) ==
    LET r == generateTableJoins(mi, exprs)
        num == Len(r.joins)
    IN IF ~r.ok THEN Panic
       ELSE IF num > Len(exprs) THEN Panic   \* exprs[num-1]: index out of range
       ELSE IF withAlias
       THEN Returns(<<r.joins[num].alias \o "." \o exprs[num], "AS", Join(exprs, sqlSep)>>,
                    <<>>, <<>>)
       ELSE Returns(<<r.joins[num].alias \o "." \o exprs[num]>>, <<>>, <<>>)

seenAlias_never(joinsMap, j) == FALSE

\* _, exists := joinsMap[j.alias]
seenAlias(joinsMap, j) == j.alias \in joinsMap

RECURSIVE tablesSQLJoins(_, _, _, _)
\* The inner loop of tablesSQL over the joins tJoins of one path, from join k.
tablesSQLJoins(tJoins, k, joinsMap, res) ==
    IF k > Len(tJoins) THEN [joinsMap |-> joinsMap, res |-> res]
    ELSE IF ~seenAlias(joinsMap, tJoins[k])
    THEN tablesSQLJoins(tJoins, k + 1, joinsMap \cup {tJoins[k].alias},
                        Append(res, tJoins[k]))
    ELSE tablesSQLJoins(tJoins, k + 1, joinsMap, res)

RECURSIVE tablesSQLLoop(_, _, _, _, _)
\* The outer loop of tablesSQL from path f of fExprs; res is the sequence of
\* the joins whose sqlString was appended to the FROM clause.
tablesSQLLoop(mi, fExprs, f, joinsMap, res) ==
    IF f > Len(fExprs) THEN Returns(<<>>, <<>>, res)
    ELSE LET r == generateTableJoins(mi, fExprs[f]) IN
         IF ~r.ok THEN Panic
         ELSE LET st == tablesSQLJoins(r.joins, 1, joinsMap, res)
              IN tablesSQLLoop(mi, fExprs, f + 1, st.joinsMap, st.res)

tablesSQL(mi, fExprs) == tablesSQLLoop(mi, fExprs, 1, {}, <<>>)

RECURSIVE conditionSQLClauseLoop(_, _, _, _, _)
RECURSIVE condValueSQLClause(_, _, _)

connective_alwaysAnd(cv, isFirst) == IF isFirst THEN <<>> ELSE <<"AND">>

\* if cv.isOr && !isFirst { "OR " } else if !isFirst { "AND " }
connective(cv, isFirst) ==
    IF cv.isOr /\ ~isFirst THEN <<"OR">>
    ELSE IF ~isFirst THEN <<"AND">>
    ELSE <<>>

\* A Condition is the sequence of its params; IsEmpty: it has no node.
IsEmpty(c) == Len(c) = 0

\* The loop of conditionSQLClause from node i of c.
conditionSQLClauseLoop(mi, c, i, sql, args) ==
    IF i > Len(c) THEN Returns(sql, args, <<>>)
    ELSE LET v == condValueSQLClause(mi, c[i], i = 1) IN
         IF ~v.ok THEN Panic
         ELSE conditionSQLClauseLoop(mi, c, i + 1, sql \o v.sql, args \o v.args)

conditionSQLClause(mi, c) ==
    IF IsEmpty(c) THEN Returns(<<>>, <<>>, <<>>)
    ELSE conditionSQLClauseLoop(mi, c, 1, <<>>, <<>>)

condValueSQLClause(mi, cv, isFirst) ==
    LET pre == connective(cv, isFirst) \o (IF cv.isNot THEN <<"NOT">> ELSE <<>>) IN
    IF cv.isCond
    THEN LET sub == conditionSQLClause(mi, cv.cond) IN
         IF ~sub.ok THEN Panic
         ELSE Returns(pre \o <<"(">> \o sub.sql \o <<")">>, sub.args, <<>>)
    ELSE LET exprs == jsonizeExpr(mi, cv.exprs)
             field == joinedFieldExpression(mi, exprs, FALSE)
             op == operatorSQL(cv.operator, cv.arg)
         IN IF ~field.ok THEN Panic
            ELSE Returns(pre \o field.sql \o op.sql, <<op.arg>>, <<>>)

RECURSIVE insertColumns(_, _, _, _)
RECURSIVE insertColumns_valsReversed(_, _, _, _)

insertColumns_valsReversed(mi, data, order, i) ==
    IF i > Len(order) THEN <<<<>>, <<>>>>
    ELSE LET fi == fieldsGet(mi, order[i])
             rest == insertColumns_valsReversed(mi, data, order, i + 1)
         IN IF fi = NoField \/ rest = <<>> THEN <<>>
            ELSE << <<fi.json>> \o rest[1], rest[2] \o <<data[order[i]]>> >>

\* The range loop of insertQuery from entry i; order is the order in which
\* the map data is iterated. The result is <<cols, vals>>, or <<>> after a
\* panic.
insertColumns(mi, data, order, i) ==
    IF i > Len(order) THEN <<<<>>, <<>>>>
    ELSE LET fi == fieldsGet(mi, order[i])
             rest == insertColumns(mi, data, order, i + 1)
         IN IF fi = NoField \/ rest = <<>> THEN <<>>
            ELSE << <<fi.json>> \o rest[1], <<data[order[i]]>> \o rest[2] >>

RECURSIVE Separated(_, _)
\* The tokens of strs joined with the separator token sep.
Separated(strs, sep) ==
    IF Len(strs) <= 1 THEN strs
    ELSE <<strs[1], sep>> \o Separated(Tail(strs), sep)

insertQuery(mi, data, order) ==
    IF order = <<>> THEN Panic   \* len(data) == 0
    ELSE LET cv == insertColumns(mi, data, order, 1) IN
         IF cv = <<>> THEN Panic
         ELSE Returns(<<"INSERT", "INTO", quoteTableName(tableName[mi]), "(">>
                      \o Separated(cv[1], ",")
                      \o <<")", "VALUES", "(">>
                      \o Separated([i \in 1..Len(cv[2]) |-> "?"], ",")
                      \o <<")", "RETURNING", "id">>,
                      cv[2], <<>>)

\* A value handed to the compiler as an argument: a scalar, or a slice (the
\* argument of a set-membership operator), with its elements.
Scalar(s) == [slice |-> FALSE, elems |-> <<s>>]
Slice(elems) == [slice |-> TRUE, elems |-> elems]

RECURSIVE Scalars(_)
Scalars(elems) ==
    IF elems = <<>> THEN <<>> ELSE <<Scalar(Head(elems))>> \o Scalars(Tail(elems))

RECURSIVE sqlxInLoop(_, _, _, _)
\* sqlx.In over the tokens of the text: the placeholder of a slice argument
\* is replaced by one placeholder per element and the elements take the
\* place of the slice; an empty slice, or a count of placeholders that differs
\* from the count of arguments, is an error.
sqlxInLoop(sql, args, resSQL, resArgs) ==
    IF sql = <<>>
    THEN IF args = <<>> THEN Returns(resSQL, resArgs, <<>>) ELSE Panic
    ELSE IF Head(sql) # "?"
    THEN sqlxInLoop(Tail(sql), args, Append(resSQL, Head(sql)), resArgs)
    ELSE IF args = <<>> THEN Panic
    ELSE LET arg == Head(args) IN
         IF ~arg.slice
         THEN sqlxInLoop(Tail(sql), Tail(args), Append(resSQL, "?"), Append(resArgs, arg))
         ELSE IF arg.elems = <<>> THEN Panic
         ELSE sqlxInLoop(Tail(sql), Tail(args),
                         resSQL \o Separated([i \in 1..Len(arg.elems) |-> "?"], ","),
                         resArgs \o Scalars(arg.elems))

\* sqlx.In returns the text and the arguments as they are when no argument
\* is a slice.
sqlxIn(sql, args) ==
    IF \A i \in 1..Len(args) : ~args[i].slice THEN Returns(sql, args, <<>>)
    ELSE sqlxInLoop(sql, args, <<>>, <<>>)

RECURSIVE Interpolated(_, _)
\* The text with each placeholder replaced by the value of its argument.
Interpolated(sql, args) ==
    IF sql = <<>> THEN <<>>
    ELSE IF Head(sql) = "?" /\ args # <<>>
    THEN Head(args).elems \o Interpolated(Tail(sql), Tail(args))
    ELSE <<Head(sql)>> \o Interpolated(Tail(sql), args)

sqlWhereClause_inline(mi, c) ==
    LET w == conditionSQLClause(mi, c) IN
    IF ~w.ok THEN Panic
    ELSE Returns(Interpolated(IF w.sql # <<>> THEN <<"WHERE">> \o w.sql ELSE w.sql, w.args),
                 <<>>, <<>>)

\* The one element of S. The results of a call are bound as elements of a
\* singleton: the call is evaluated once, as the code keeps its results in
\* local variables.
Once(S) == CHOOSE x \in S : TRUE

sqlWhereClause(mi, c) ==
    Once({IF ~w.ok THEN Panic
          ELSE sqlxIn(IF w.sql # <<>> THEN <<"WHERE">> \o w.sql ELSE w.sql, w.args) :
          w \in {conditionSQLClause(mi, c)}})

updateArgs_whereFirst(vals, args) == args \o vals

\* vals = append(vals, args...)
updateArgs(vals, args) == vals \o args

RECURSIVE updateColumns(_, _, _, _)
\* The range loop of updateQuery from entry i; order is the order in which
\* the map data is iterated. The result is <<cols, vals>>, or <<>> after a
\* panic.
updateColumns(mi, data, order, i) ==
    IF i > Len(order) THEN <<<<>>, <<>>>>
    ELSE LET fi == fieldsGet(mi, order[i])
             rest == updateColumns(mi, data, order, i + 1)
         IN IF fi = NoField \/ rest = <<>> THEN <<>>
            ELSE << <<<<fi.json, "=", "?">>>> \o rest[1], <<data[order[i]]>> \o rest[2] >>

RECURSIVE Flat(_)
\* The tokens of a sequence of token sequences.
Flat(seqs) == IF seqs = <<>> THEN <<>> ELSE Head(seqs) \o Flat(Tail(seqs))

RECURSIVE SeparatedTokens(_, _)
\* strings.Join over texts of several tokens.
SeparatedTokens(texts, sep) ==
    IF texts = <<>> THEN <<>>
    ELSE IF Len(texts) = 1 THEN texts[1]
    ELSE texts[1] \o <<sep>> \o SeparatedTokens(Tail(texts), sep)

updateQuery(mi, data, order, cond) ==
    IF order = <<>> THEN Panic   \* len(data) == 0
    ELSE LET cv == updateColumns(mi, data, order, 1) IN
         IF cv = <<>> THEN Panic
         ELSE Once({IF ~w.ok THEN Panic
                    ELSE Returns(<<"UPDATE", quoteTableName(tableName[mi]), "SET">>
                                 \o SeparatedTokens(cv[1], ",") \o w.sql,
                                 updateArgs(cv[2], w.args), <<>>) :
                    w \in {sqlWhereClause(mi, cond)}})

deleteQuery(mi, cond) ==
    Once({IF ~w.ok THEN Panic
          ELSE Returns(<<"DELETE", "FROM", quoteTableName(tableName[mi])>> \o w.sql,
                       w.args, <<>>) :
          w \in {sqlWhereClause(mi, cond)}})

RECURSIVE getAllExpressions(_, _)
\* Condition.getAllExpressions: the jsonized field paths of the leaves of c,
\* those of nested conditions included, in the order of the tree.
getAllExpressions(mi, c) ==
    IF c = <<>> THEN <<>>
    ELSE (IF c[1].isCond THEN getAllExpressions(mi, c[1].cond)
          ELSE <<jsonizeExpr(mi, c[1].exprs)>>)
         \o getAllExpressions(mi, Tail(c))

\* tableJoin.sqlString: the text of one entry of the FROM clause.
sqlString(j) ==
    IF j.joined
    THEN <<IF j.innerJoin THEN "INNER" ELSE "LEFT", "JOIN", j.tableName, j.alias, "ON",
           j.otherTable \o "." \o j.otherField, "=", j.alias \o "." \o j.field>>
    ELSE <<j.tableName, j.alias>>

RECURSIVE fieldsSQLLoop(_, _, _)
\* The loop of fieldsSQL from field i: the texts of the fields, or <<>> after
\* a panic.
fieldsSQLLoop(mi, fieldExprs, i) ==
    IF i > Len(fieldExprs) THEN <<<<>>>>
    ELSE LET f == joinedFieldExpression(mi, fieldExprs[i], TRUE)
             rest == fieldsSQLLoop(mi, fieldExprs, i + 1)
         IN IF ~f.ok \/ rest = <<>> THEN <<>>
            ELSE <<<<f.sql>> \o rest[1]>>

fieldsSQL(mi, fieldExprs) ==
    LET r == fieldsSQLLoop(mi, fieldExprs, 1) IN
    IF r = <<>> THEN Panic ELSE Returns(SeparatedTokens(r[1], ","), <<>>, <<>>)

\* An order of a query: the path and the direction of strings.Split(order, " ").
RECURSIVE sqlOrderByLoop(_, _, _)
sqlOrderByLoop(mi, orders, i) ==
    IF i > Len(orders) THEN <<<<>>>>
    ELSE LET f == joinedFieldExpression(mi, jsonizeExpr(mi, orders[i].exprs), FALSE)
             rest == sqlOrderByLoop(mi, orders, i + 1)
         IN IF ~f.ok \/ rest = <<>> THEN <<>>
            ELSE <<<<f.sql \o (IF orders[i].dir = "" THEN <<>> ELSE <<orders[i].dir>>)>>
                   \o rest[1]>>

sqlOrderByClause(mi, orders) ==
    IF Len(orders) = 0 THEN Returns(<<>>, <<>>, <<>>)
    ELSE LET r == sqlOrderByLoop(mi, orders, 1) IN
         IF r = <<>> THEN Panic
         ELSE Returns(<<"ORDER", "BY">> \o SeparatedTokens(r[1], ","), <<>>, <<>>)

sqlLimitOffsetClause(limit, offset) ==
    (IF limit > 0 THEN <<"LIMIT", ToString(limit)>> ELSE <<>>)
    \o (IF offset > 0 THEN <<"OFFSET", ToString(offset)>> ELSE <<>>)

\* fields holds the paths of strings.Split(f, ExprSep). The joins of the FROM
\* clause are returned next to the text.
selectQuery(mi, fields, cond, orders, limit, offset) ==
    LET fieldExprs == [i \in 1..Len(fields) |-> jsonizeExpr(mi, fields[i])]
        fExprs == fieldExprs \o getAllExpressions(mi, cond)
                  \o [i \in 1..Len(orders) |-> jsonizeExpr(mi, orders[i].exprs)]
    IN Once({IF ~fSQL.ok \/ ~tSQL.ok \/ ~w.ok \/ ~o.ok THEN Panic
             ELSE Returns(<<"SELECT">> \o fSQL.sql \o <<"FROM">>
                          \o Flat([i \in 1..Len(tSQL.joins) |-> sqlString(tSQL.joins[i])])
                          \o w.sql \o o.sql \o sqlLimitOffsetClause(limit, offset),
                          w.args, tSQL.joins) :
             fSQL \in {fieldsSQL(mi, fieldExprs)},
             tSQL \in {tablesSQL(mi, fExprs)},
             w \in {sqlWhereClause(mi, cond)},
             o \in {sqlOrderByClause(mi, orders)}})

(***************************************************************************)
(* Inputs of the query compiler                                            *)
(***************************************************************************)
\* Segments of the field paths: the JSON names of the catalog; each of them
\* is unknown in one of the two models. A path has at least one segment
\* (strings.Split never returns an empty slice).
PathSegs == {"name", "profile_id", "manager_id", "creator_id", "city"}
Paths(maxLen) == UNION {[1..n -> PathSegs] : n \in 1..maxLen}

Min(a, b) == IF a < b THEN a ELSE b

RECURSIVE PathLists(_, _)
\* The lists of at most k paths with at most segs segments in all.
PathLists(k, segs) ==
    {<<>>} \cup
    (IF k = 0 \/ segs = 0 THEN {}
     ELSE UNION {{<<p>> \o rest : rest \in PathLists(k - 1, segs - Len(p))} :
                    p \in Paths(Min(segs, MaxPathLen))})

\* The content of the k-th leaf of a condition tree, in depth-first order.
LeafExprs == <<<<"Name">>, <<"Manager", "Name">>, <<"Profile", "City">>>>
LeafOps == <<"=", "=", "=", "in">>
LeafArgs == <<"1", "2", "3", "4", "5", "6">>
Cyclic(seq, k) == seq[((k - 1) % Len(seq)) + 1]

Leaf(k, isOr, isNot) ==
    [isOr |-> isOr, isNot |-> isNot, isCond |-> FALSE, cond |-> <<>>,
     exprs |-> Cyclic(LeafExprs, k), operator |-> Cyclic(LeafOps, k),
     arg |-> Cyclic(LeafArgs, k)]
SubCond(c, isOr, isNot) ==
    [isOr |-> isOr, isNot |-> isNot, isCond |-> TRUE, cond |-> c,
     exprs |-> <<>>, operator |-> "", arg |-> ""]

RECURSIVE Size(_)
\* Number of condValue nodes of condition c, nested ones included.
Size(c) == IF c = <<>> THEN 0
           ELSE 1 + (IF c[1].isCond THEN Size(c[1].cond) ELSE 0) + Size(Tail(c))

RECURSIVE NLeaves(_)
NLeaves(c) == IF c = <<>> THEN 0
              ELSE (IF c[1].isCond THEN NLeaves(c[1].cond) ELSE 1) + NLeaves(Tail(c))

RECURSIVE Shapes(_)
\* Shapes(n)[m + 1] is the set of the conditions of at most m nodes, m <= n,
\* all leaves having the content of the first leaf.
Shapes(n) ==
    IF n = 0 THEN <<{<<>>}>>
    ELSE LET prev == Shapes(n - 1) IN
         Append(prev,
            {<<>>}
            \cup {<<Leaf(1, f[1], f[2])>> \o rest :
                     f \in BOOLEAN \X BOOLEAN, rest \in prev[n]}
            \cup UNION {{<<SubCond(ch, f[1], f[2])>> \o rest :
                            f \in BOOLEAN \X BOOLEAN, rest \in prev[n - Size(ch)]} :
                        ch \in prev[n]})

RECURSIVE Numbered(_, _)
\* Condition c with its leaves given the content of leaf k, k + 1, ... in
\* depth-first order.
Numbered(c, k) ==
    IF c = <<>> THEN <<>>
    ELSE IF c[1].isCond
    THEN <<SubCond(Numbered(c[1].cond, k), c[1].isOr, c[1].isNot)>>
         \o Numbered(Tail(c), k + NLeaves(c[1].cond))
    ELSE <<Leaf(k, c[1].isOr, c[1].isNot)>> \o Numbered(Tail(c), k + 1)

\* The conditions of at most n nodes.
Conditions(n) == {Numbered(c, 1) : c \in Shapes(n)[n + 1]}

InsertKeys == {"Name", "Age", "profile_id", "Bogus"}
InsertValues == {"Bob", "30"}
Orders(S) == {o \in [1..Cardinality(S) -> S] : \A i, j \in DOMAIN o : i # j => o[i] # o[j]}

NoData == [k \in {} |-> ""]
MkTask(kind, mi, cond, paths, withAlias, data, order) ==
    [kind |-> kind, mi |-> mi, cond |-> cond, paths |-> paths,
     withAlias |-> withAlias, data |-> data, order |-> order]

CondTasks(n) ==
    {MkTask("cond", "User", c, <<>>, FALSE, NoData, <<>>) : c \in Conditions(n)}
JoinTasks(n) ==
    {MkTask("joins", mi, <<>>, <<p>>, FALSE, NoData, <<>>) :
        mi \in QModels, p \in Paths(n)}
FieldTasks(n) ==
    {MkTask("field", mi, <<>>, <<p>>, w, NoData, <<>>) :
        mi \in QModels, p \in Paths(n), w \in BOOLEAN}
TablesTasks(k, segs) ==
    {MkTask("tables", "User", <<>>, ps, FALSE, NoData, <<>>) : ps \in PathLists(k, segs)}
InsertTasks(keys) ==
    UNION {UNION {{MkTask("insert", "User", <<>>, <<>>, FALSE, d, o) : o \in Orders(S)} :
                     d \in [S -> InsertValues]} : S \in SUBSET keys}

\* Inputs of the statement compilers: the leaves carry the arguments as the
\* driver receives them, a slice for the set-membership operator; the last
\* slice is empty.
StmtExprs == <<<<"Name">>, <<"Profile", "City">>, <<"Manager", "Name">>, <<"Age">>>>
StmtOps == <<"=", "in", "!=", "in">>
StmtArgs == <<Scalar("1"), Slice(<<"2", "3">>), Scalar("4"), Slice(<<>>)>>

StmtLeaf(k, isOr, isNot) ==
    [isOr |-> isOr, isNot |-> isNot, isCond |-> FALSE, cond |-> <<>>,
     exprs |-> Cyclic(StmtExprs, k), operator |-> Cyclic(StmtOps, k),
     arg |-> Cyclic(StmtArgs, k)]
StmtSubCond(c, isOr, isNot) ==
    [isOr |-> isOr, isNot |-> isNot, isCond |-> TRUE, cond |-> c,
     exprs |-> <<>>, operator |-> "", arg |-> Scalar("")]

RECURSIVE StmtNumbered(_, _)
StmtNumbered(c, k) ==
    IF c = <<>> THEN <<>>
    ELSE IF c[1].isCond
    THEN <<StmtSubCond(StmtNumbered(c[1].cond, k), c[1].isOr, c[1].isNot)>>
         \o StmtNumbered(Tail(c), k + NLeaves(c[1].cond))
    ELSE <<StmtLeaf(k, c[1].isOr, c[1].isNot)>> \o StmtNumbered(Tail(c), k + 1)

\* The conditions of at most n nodes, their leaves numbered from any leaf.
StmtConditions(n) ==
    {StmtNumbered(c, k) : c \in Shapes(n)[n + 1], k \in 1..Len(StmtArgs)}

\* The FieldMaps of an update or an insert with the orders in which the map
\* may be iterated; "Bogus" names no field.
StmtValues == [Name |-> Scalar("Bob"), Age |-> Scalar("30"), Bogus |-> Scalar("x")]
StmtKeySets == {{}, {"Name"}, {"Age"}, {"Name", "Age"}, {"Name", "Bogus"}}

\* The projection, the orders and the window of a SELECT.
NoSelect == [fields |-> <<>>, orders |-> <<>>, limit |-> 0, offset |-> 0]
MkStmt(kind, cond, data, order, sel) ==
    [kind |-> kind, mi |-> "User", cond |-> cond, paths |-> sel.fields,
     withAlias |-> TRUE, data |-> data, order |-> order,
     orders |-> sel.orders, limit |-> sel.limit, offset |-> sel.offset]

StmtDatas ==
    UNION {{[data |-> [k \in S |-> StmtValues[k]], order |-> o] : o \in Orders(S)} :
              S \in StmtKeySets}

\* The statements compiled under condition c: the INSERT has no condition.
UpdateTasks(c) == {MkStmt("update", c, d.data, d.order, NoSelect) : d \in StmtDatas}
DeleteTasks(c) == {MkStmt("delete", c, NoData, <<>>, NoSelect)}

\* "Bogus" names no field of the model.
SelectShapes == {
    [fields |-> <<<<"Name">>>>, orders |-> <<>>, limit |-> 0, offset |-> 0],
    [fields |-> <<<<"Manager", "Name">>, <<"Name">>>>,
     orders |-> <<[exprs |-> <<"Creator", "Name">>, dir |-> "DESC"]>>,
     limit |-> 10, offset |-> 0],
    [fields |-> <<<<"Profile", "City">>>>,
     orders |-> <<[exprs |-> <<"Age">>, dir |-> ""]>>, limit |-> 0, offset |-> 5],
    [fields |-> <<>>, orders |-> <<>>, limit |-> 10, offset |-> 5],
    [fields |-> <<<<"Bogus">>>>, orders |-> <<>>, limit |-> 0, offset |-> 0] }
SelectTasks(c) == {MkStmt("select", c, NoData, <<>>, sel) : sel \in SelectShapes}

StmtInsertTasks(c) ==
    IF c # <<>> THEN {}
    ELSE {MkStmt("insert", c, d.data, d.order, NoSelect) : d \in StmtDatas}

StmtTasks(c) == UpdateTasks(c) \cup DeleteTasks(c) \cup SelectTasks(c) \cup StmtInsertTasks(c)

(***************************************************************************)
(* Views collection (package ir)                                           *)
(***************************************************************************)
NoView == [ID |-> "", Model |-> "", Type |-> "", Priority |-> 0]

\* The views handed to AddView.
ViewCatalog == {
    [ID |-> "a", Model |-> "User", Type |-> "tree", Priority |-> 1],
    [ID |-> "b", Model |-> "User", Type |-> "tree", Priority |-> 2],
    [ID |-> "c", Model |-> "User", Type |-> "form", Priority |-> 2],
    [ID |-> "d", Model |-> "User", Type |-> "form", Priority |-> 3],
    [ID |-> "e", Model |-> "Profile", Type |-> "form", Priority |-> 1] }
ViewIDs == {v.ID : v \in ViewCatalog} \cup {"z"}
ViewModels == {"User", "Profile"}
ViewTypes == {"tree", "form"}

\* The goroutines that call AddView.
Writers == {"w1", "w2"}

\* int8(i)
Int8(i) == ((i + 128) % 256) - 128

RECURSIVE AddViewIndexLoop(_, _, _, _)
\* for i, view := range list { index = int8(i); if view.Priority >=
\* v.Priority { break } } from iteration i (0-based) on.
AddViewIndexLoop(list, v, i, index) ==
    IF i >= Len(list) THEN index
    ELSE IF list[i + 1].Priority >= v.Priority THEN Int8(i)
    ELSE AddViewIndexLoop(list, v, i + 1, Int8(i))

\* The list with v inserted at the 0-based position index.
InsertAt(list, index, v) ==
    SubSeq(list, 1, index) \o <<v>> \o SubSeq(list, index + 1, Len(list))

NoRead == [op |-> "none", status |-> "ok", result |-> NoView, inside |-> FALSE,
           listed |-> FALSE]

\* A runtime fatal error ends the program.
Crashed == lastRead.status = "fatal"

\* NewViewsCollection
ViewInit ==
    /\ views = [id \in ViewIDs |-> NoView]
    /\ orderedViews = [m \in ViewModels |-> <<>>]
    /\ lock = "none"
    /\ wpc = [w \in Writers |-> "idle"]
    /\ wv = [w \in Writers |-> NoView]
    /\ windex = [w \in Writers |-> 0]
    /\ added = {}
    /\ nCalls = 0
    /\ lastRead = NoRead

\* AddView, lines 110-117: vc.Lock() and the loop that computes index.
AddViewLock(w, v) ==
    /\ ~Crashed
    /\ nCalls < MaxCalls
    /\ wpc[w] = "idle"
    /\ lock = "none"
    /\ lock' = w
    /\ wv' = [wv EXCEPT ![w] = v]
    /\ windex' = [windex EXCEPT ![w] = AddViewIndexLoop(orderedViews[v.Model], v, 0, 0)]
    /\ wpc' = [wpc EXCEPT ![w] = "locked"]
    /\ nCalls' = nCalls + 1
    /\ UNCHANGED <<views, orderedViews, added, lastRead>>
    /\ UNCHANGED <<regVars, qVars>>

\* AddView, line 119: vc.views[v.ID] = v
AddViewPut(w) ==
    /\ ~Crashed
    /\ wpc[w] = "locked"
    /\ views' = [views EXCEPT ![wv[w].ID] = wv[w]]
    /\ wpc' = [wpc EXCEPT ![w] = "put"]
    /\ UNCHANGED <<orderedViews, lock, wv, windex, added, nCalls, lastRead>>
    /\ UNCHANGED <<regVars, qVars>>

\* AddView, lines 120-122: the view is inserted at index.
AddViewInsert(w) ==
    /\ ~Crashed
    /\ wpc[w] = "put"
    /\ orderedViews' = [orderedViews EXCEPT
                           ![wv[w].Model] = InsertAt(@, windex[w], wv[w])]
    /\ wpc' = [wpc EXCEPT ![w] = "inserted"]
    /\ UNCHANGED <<views, lock, wv, windex, added, nCalls, lastRead>>
    /\ UNCHANGED <<regVars, qVars>>

\* AddView, line 118: the deferred vc.Unlock().
AddViewUnlock(w) ==
    /\ ~Crashed
    /\ wpc[w] = "inserted"
    /\ lock' = "none"
    /\ added' = added \cup {wv[w]}
    /\ wpc' = [wpc EXCEPT ![w] = "idle"]
    /\ UNCHANGED <<views, orderedViews, wv, windex, nCalls, lastRead>>
    /\ UNCHANGED <<regVars, qVars>>

\* View v is in the list of its model (a model without list has none).
Listed(v) ==
    /\ v.Model \in DOMAIN orderedViews
    /\ \E i \in DOMAIN orderedViews[v.Model] : orderedViews[v.Model][i] = v

\* GetViewById takes no lock: it reads the map whatever the writers do. A
\* read that races with the map write of line 119 is a data race: it yields
\* the entry as it is or the runtime ends the program (concurrent map read
\* and map write).
GetViewById(id) ==
    /\ ~Crashed
    /\ \E status \in {"ok", "fatal"} :
          /\ status = "fatal" => \E w \in Writers : wpc[w] = "locked"
          /\ lastRead' = [op |-> "GetViewById", status |-> status,
                          result |-> IF status = "ok" THEN views[id] ELSE NoView,
                          inside |-> lock # "none",
                          listed |-> status = "ok" /\ Listed(views[id])]
    /\ UNCHANGED <<views, orderedViews, lock, wpc, wv, windex, added, nCalls>>
    /\ UNCHANGED <<regVars, qVars>>

\* The lists a reader may iterate for model: the list of the map, or, racing
\* with lines 120-122 of a writer on the same model, the list whose element
\* at index is already overwritten by the first append (written in place in
\* the shared backing array).
ReadableLists(model) ==
    {orderedViews[model]}
    \cup {[orderedViews[model] EXCEPT ![windex[w] + 1] = wv[w]] :
            w \in {x \in Writers : /\ wpc[x] = "put"
                                   /\ wv[x].Model = model
                                   /\ windex[x] < Len(orderedViews[model])}}

RECURSIVE FirstOfType(_, _)
\* for _, view := range list { if view.Type == viewType { return view } }
FirstOfType(list, viewType) ==
    IF list = <<>> THEN NoView
    ELSE IF Head(list).Type = viewType THEN Head(list)
    ELSE FirstOfType(Tail(list), viewType)

\* GetFirstViewForModel takes no lock either. It panics when the model has
\* no view of the type; racing with the map write of line 122 the runtime
\* may end the program.
GetFirstViewForModel(model, viewType) ==
    /\ ~Crashed
    /\ \E status \in {"ok", "fatal"}, list \in ReadableLists(model) :
          /\ status = "fatal" => \E w \in Writers : wpc[w] = "put"
          /\ LET found == FirstOfType(list, viewType) IN
             lastRead' = [op |-> "GetFirstViewForModel",
                          status |-> IF status = "fatal" THEN "fatal"
                                     ELSE IF found = NoView THEN "panic" ELSE "ok",
                          result |-> IF status = "fatal" THEN NoView ELSE found,
                          inside |-> lock # "none",
                          listed |-> status = "ok" /\ found # NoView /\ Listed(found)]
    /\ UNCHANGED <<views, orderedViews, lock, wpc, wv, windex, added, nCalls>>
    /\ UNCHANGED <<regVars, qVars>>

(***************************************************************************)
(* Specifications                                                          *)
(***************************************************************************)
QIdle == /\ pc = "idle"
         /\ task = MkTask("none", "", <<>>, <<>>, FALSE, NoData, <<>>)
         /\ out = Panic

Init == RegInit /\ QIdle /\ ViewInit

Declare == \E modelName \in CallModels, methodName \in MethodNames, fnct \in FnctValues :
               DeclareMethod(modelName, methodName, fnct)

Next == Declare \/ BootStrap

Spec == Init /\ [][Next]_vars

\* One compilation: the input is task, the result is out.
Compile(kind, result) ==
    /\ pc = "in"
    /\ task.kind = kind
    /\ out' = result
    /\ pc' = "done"
    /\ UNCHANGED task
    /\ UNCHANGED <<regVars, viewVars>>

ConditionSQLClause == Compile("cond", conditionSQLClause(task.mi, task.cond))
GenerateTableJoins == Compile("joins", generateTableJoins(task.mi, task.paths[1]))
JoinedFieldExpression ==
    Compile("field", joinedFieldExpression(task.mi, task.paths[1], task.withAlias))
TablesSQL == Compile("tables", tablesSQL(task.mi, task.paths))
InsertQuery == Compile("insert", insertQuery(task.mi, task.data, task.order))

QInit(tasks) == /\ RegInit
                /\ ViewInit
                /\ pc = "in"
                /\ task \in tasks
                /\ out = Panic

InitCond == QInit(CondTasks(MaxNodes))
NextCond == ConditionSQLClause
SpecCond == InitCond /\ [][NextCond]_vars

InitJoins == QInit(JoinTasks(MaxPathLen) \cup FieldTasks(MaxPathLen)
                   \cup TablesTasks(MaxPaths, MaxTableSegs))
NextJoins == GenerateTableJoins \/ JoinedFieldExpression \/ TablesSQL
SpecJoins == InitJoins /\ [][NextJoins]_vars

InitInsert == QInit(InsertTasks(InsertKeys))
NextInsert == InsertQuery
SpecInsert == InitInsert /\ [][NextInsert]_vars

UpdateQuery ==
    Compile("update", updateQuery(task.mi, task.data, task.order, task.cond))

DeleteQuery == Compile("delete", deleteQuery(task.mi, task.cond))
SelectQuery ==
    Compile("select", selectQuery(task.mi, task.paths, task.cond, task.orders,
                                  task.limit, task.offset))

InitStmt ==
    /\ RegInit
    /\ ViewInit
    /\ pc = "in"
    /\ \E c \in StmtConditions(MaxStmtNodes) : task \in StmtTasks(c)
    /\ out = Panic
NextStmt == UpdateQuery \/ DeleteQuery \/ SelectQuery \/ InsertQuery
SpecStmt == InitStmt /\ [][NextStmt]_vars

AddViewStart == \E w \in Writers, v \in ViewCatalog : AddViewLock(w, v)
AddViewWrite == \E w \in Writers : AddViewPut(w)
AddViewOrder == \E w \in Writers : AddViewInsert(w)
AddViewReturn == \E w \in Writers : AddViewUnlock(w)
ViewById == \E id \in ViewIDs : GetViewById(id)
FirstViewForModel ==
    \E model \in ViewModels, viewType \in ViewTypes : GetFirstViewForModel(model, viewType)

InitViews == RegInit /\ QIdle /\ ViewInit
NextViews ==
    \/ AddViewStart
    \/ AddViewWrite
    \/ AddViewOrder
    \/ AddViewReturn
    \/ ViewById
    \/ FirstViewForModel
SpecViews == InitViews /\ [][NextViews]_vars

(***************************************************************************)
(* Properties of the method registry                                       *)
(***************************************************************************)
RECURSIVE Walk(_, _, _)
\* The layers met from layer l by getNextLayer; -1 marks a walk that did not
\* end within fuel steps (a cycle).
Walk(methInfo, l, fuel) ==
    IF l = Nil THEN <<>>
    ELSE IF fuel = 0 THEN <<-1>>
    ELSE <<l>> \o Walk(methInfo, getNextLayer(methInfo, l), fuel - 1)

Chain(methInfo) == Walk(methInfo, methInfo.topLayer, Len(layers) + 1)

Reverse(s) == [i \in 1..Len(s) |-> s[Len(s) + 1 - i]]

\* The layer registered immediately before layer l on its method, or Nil.
RegisteredBefore(l) ==
    LET reg == registered[layers[l].methInfo[1]][layers[l].methInfo[2]]
        i == CHOOSE k \in 1..Len(reg) : reg[k] = l
    IN IF i = 1 THEN Nil ELSE reg[i - 1]

\* C1: walking getNextLayer from topLayer visits the registered layers of the
\* method exactly once each, newest first, and ends with none after the
\* first-registered layer; the chain is as long as the number of successful
\* registrations.
C1_ChainIsRegistrationList ==
    \A m \in RegModels, n \in MethodNames :
        IF exists(cache[m], n)
        THEN /\ Chain(get(cache[m], n)) = Reverse(registered[m][n])
             /\ Len(Chain(get(cache[m], n))) = Len(registered[m][n])
             /\ getNextLayer(get(cache[m], n), registered[m][n][1]) = Nil
        ELSE registered[m][n] = <<>>

C1_Witness ==
    \E m \in RegModels, n \in MethodNames :
        /\ Len(registered[m][n]) >= 3
        /\ Chain(get(cache[m], n)) = Reverse(registered[m][n])

\* C2: for every registered layer L, getByFunc on L's function followed by
\* getNextLayer yields the layer registered immediately before L on the same
\* method, or none when L is the first registration.
C2_NextByFuncIsLayerBelow ==
    \A l \in 1..Len(layers) :
        LET ml == getByFunc(cacheByFunc[layers[l].methInfo[1]], layers[l].funcValue)
        IN /\ ml # Nil
           /\ getNextLayer(cache[layers[ml].methInfo[1]][layers[ml].methInfo[2]], ml)
                 = RegisteredBefore(l)

RegistryUnchanged == UNCHANGED <<layers, cache, cacheByFunc, registered>>

\* A DeclareMethod(m, n, f) step on an existing method whose declared
\* signature differs from the signature of f.
MismatchedCall(m, n, f) ==
    /\ exists(cache[m], n)
    /\ get(cache[m], n).methodType # FuncType[f]
    /\ DeclareMethod(m, n, f)

\* C3 as stated: DeclareMethod on an existing method with a function of another
\* signature always fails with a signature error and leaves topLayer, nextLayer
\* and both caches unchanged.
C3_MismatchAlwaysSignatureError ==
    [][\A m \in RegModels, n \in MethodNames, f \in FuncValues :
          MismatchedCall(m, n, f) => (lastErr' = "signature" /\ RegistryUnchanged)]_vars

\* C3 amended: such a call always fails and leaves the registry unchanged; the
\* failure is the signature error when the model is not bootstrapped, and the
\* bootstrap error when it is.
C3_MismatchFailsUnchanged ==
    [][\A m \in RegModels, n \in MethodNames, f \in FuncValues :
          MismatchedCall(m, n, f) =>
             /\ lastErr' = (IF bootstrapped[m] THEN "bootstrapped" ELSE "signature")
             /\ RegistryUnchanged]_vars

C3_Witness ==
    /\ lastErr = "signature"
    /\ \E m \in RegModels, n \in MethodNames : Len(registered[m][n]) >= 2

\* C4: once a model is bootstrapped every DeclareMethod call on it fails, both
\* caches and every layer chain stay as they are, and the model stays
\* bootstrapped, so a repeated call fails the same way.
C4_NoDeclareAfterBootstrap ==
    [][\A m \in RegModels, n \in MethodNames, f \in FnctValues :
          (bootstrapped[m] /\ DeclareMethod(m, n, f)) =>
             /\ lastErr' = "bootstrapped"
             /\ RegistryUnchanged
             /\ bootstrapped'[m]]_vars

C4_Witness ==
    /\ lastErr = "bootstrapped"
    /\ \E m \in RegModels : bootstrapped[m] /\ \E n \in MethodNames : exists(cache[m], n)

(***************************************************************************)
(* Properties of the query compiler                                        *)
(***************************************************************************)
Done(kind) == pc = "done" /\ task.kind = kind

RECURSIVE ExpectedText(_, _, _)
\* The text of nodes i.. of condition c as the rules of C5 give it.
ExpectedText(mi, c, i) ==
    IF i > Len(c) THEN <<>>
    ELSE (IF i = 1 THEN <<>> ELSE IF c[i].isOr THEN <<"OR">> ELSE <<"AND">>)
         \o (IF c[i].isNot THEN <<"NOT">> ELSE <<>>)
         \o (IF c[i].isCond
             THEN <<"(">> \o ExpectedText(mi, c[i].cond, 1) \o <<")">>
             ELSE joinedFieldExpression(mi, jsonizeExpr(mi, c[i].exprs), FALSE).sql
                  \o operatorSQL(c[i].operator, c[i].arg).sql)
         \o ExpectedText(mi, c, i + 1)

RECURSIVE LeafArgsOf(_)
\* The arguments of the leaves of c, left to right, depth first.
LeafArgsOf(c) ==
    IF c = <<>> THEN <<>>
    ELSE (IF c[1].isCond THEN LeafArgsOf(c[1].cond) ELSE <<c[1].arg>>)
         \o LeafArgsOf(Tail(c))

\* (A = 1 OR B = 2) AND NOT C = 3
ExampleCond ==
    <<SubCond(<<Leaf(1, FALSE, FALSE), Leaf(2, TRUE, FALSE)>>, FALSE, FALSE),
      Leaf(3, FALSE, TRUE)>>
ExampleText ==
    <<"(", "\"user\".name", "=", "?", "OR", "\"user__user\".name", "=", "?", ")",
      "AND", "NOT", "\"user__profile\".city", "=", "?">>

RECURSIVE ModelAt(_, _, _)
\* The model the walk along path p from model mi has reached at segment i;
\* "" when a segment before i is no relation field of the model reached.
ModelAt(mi, p, i) ==
    IF i = 1 THEN mi ELSE fieldsGet(ModelAt(mi, p, i - 1), p[i - 1]).relatedModel

FieldAt(mi, p, i) == fieldsGet(ModelAt(mi, p, i), p[i])

\* Every segment of p is a field of the model the walk has reached.
Resolved(mi, p) == \A i \in 1..Len(p) : FieldAt(mi, p, i) # NoField

\* C6: for a field path whose non-final segments are relation fields (and
\* whose final segment is a field), generateTableJoins returns the root table
\* followed by one join per non-final segment, in path order, each INNER iff
\* its own relation field is required; the last segment gives no join.
C6_OneJoinPerHop ==
    (Done("joins") /\ Resolved(task.mi, task.paths[1])) =>
        LET p == task.paths[1] IN
        /\ out.ok
        /\ Len(out.joins) = Len(p)
        /\ out.joins[1] = currentTJ(task.mi)
        /\ \A i \in 1..(Len(p) - 1) :
              LET fi == FieldAt(task.mi, p, i) IN
              /\ out.joins[i + 1].joined
              /\ out.joins[i + 1].innerJoin = fi.required
              /\ out.joins[i + 1].tableName = quoteTableName(tableName[fi.relatedModel])
              /\ out.joins[i + 1].otherField = p[i]
              /\ out.joins[i + 1].otherTable = out.joins[i].alias

C6_Witness ==
    /\ Done("joins")
    /\ task.mi = "User"
    /\ task.paths[1] = <<"manager_id", "creator_id", "profile_id">>
    /\ Len(out.joins) = 3
    /\ ~out.joins[2].innerJoin
    /\ out.joins[3].innerJoin

\* C7: two field paths of one query get the same join alias at a hop iff the
\* relation fields walked up to that hop are the same, and the join of every
\* hop of every path is in the FROM clause.
C7_AliasByPathPrefix ==
    (Done("tables") /\ out.ok) =>
        \A a, b \in 1..Len(task.paths) :
            LET p == task.paths[a]
                q == task.paths[b]
                jp == generateTableJoins(task.mi, p).joins
                jq == generateTableJoins(task.mi, q).joins
            IN /\ \A i \in 2..Len(jp), j \in 2..Len(jq) :
                     (jp[i].alias = jq[j].alias) <=>
                        (SubSeq(p, 1, i - 1) = SubSeq(q, 1, j - 1))
               /\ \A i \in 2..Len(jp) : \E k \in 1..Len(out.joins) : out.joins[k] = jp[i]

RECURSIVE AllJoins(_, _, _)
\* The joins of paths f.. of fExprs, one path after the other.
AllJoins(mi, fExprs, f) ==
    IF f > Len(fExprs) THEN <<>>
    ELSE generateTableJoins(mi, fExprs[f]).joins \o AllJoins(mi, fExprs, f + 1)

FirstWith(all, alias) ==
    CHOOSE k \in 1..Len(all) :
        all[k].alias = alias /\ \A h \in 1..(k - 1) : all[h].alias # alias

\* C8: the FROM clause of tablesSQL holds each alias of the paths once, namely
\* its first occurrence, in first-seen order; it starts with the root table;
\* the table a join joins onto is emitted before the join.
C8_FromClauseDedup ==
    (Done("tables") /\ out.ok) =>
        LET res == out.joins
            all == AllJoins(task.mi, task.paths, 1)
        IN /\ \A i, j \in 1..Len(res) : i # j => res[i].alias # res[j].alias
           /\ {res[i].alias : i \in 1..Len(res)} = {all[k].alias : k \in 1..Len(all)}
           /\ \A i \in 1..Len(res) : res[i] = all[FirstWith(all, res[i].alias)]
           /\ \A i, j \in 1..Len(res) :
                 i < j => FirstWith(all, res[i].alias) < FirstWith(all, res[j].alias)
           /\ task.paths # <<>> => (res # <<>> /\ res[1] = currentTJ(task.mi))
           /\ \A i \in 1..Len(res) :
                 res[i].joined => \E k \in 1..(i - 1) : res[k].alias = res[i].otherTable

C8_Witness ==
    /\ Done("tables")
    /\ out.ok
    /\ task.paths = <<<<"manager_id", "name">>, <<"manager_id", "profile_id">>>>
    /\ Len(out.joins) = 2
    /\ Len(AllJoins(task.mi, task.paths, 1)) = 4

\* C9: compiling a field path fails fatally whenever some segment of it is
\* not a field of the model the walk has reached at that segment, wherever
\* the segment stands; no SQL text is produced for such a path.
C9_UnresolvedSegmentIsFatal ==
    (Done("field") /\ ~Resolved(task.mi, task.paths[1])) => (~out.ok /\ out.sql = <<>>)

InsertText(table, cols) ==
    <<"INSERT", "INTO", quoteTableName(table), "(">>
    \o Separated(cols, ",")
    \o <<")", "VALUES", "(">>
    \o Separated([i \in 1..Len(cols) |-> "?"], ",")
    \o <<")", "RETURNING", "id">>

\* C10: for a non-empty map of known fields insertQuery emits one column and
\* one placeholder per entry, each column the storage name of its field, and
\* the i-th column belongs to the field whose value is the i-th argument, in
\* whatever order the map is iterated.
C10_InsertColumnsMatchArgs ==
    (/\ Done("insert")
     /\ DOMAIN task.data # {}
     /\ \A k \in DOMAIN task.data : fieldsGet(task.mi, k) # NoField) =>
        /\ out.ok
        /\ Len(out.args) = Cardinality(DOMAIN task.data)
        /\ \E perm \in Orders(DOMAIN task.data) :
              /\ out.args = [i \in 1..Len(perm) |-> task.data[perm[i]]]
              /\ out.sql = InsertText(tableName[task.mi],
                              [i \in 1..Len(perm) |-> fieldsGet(task.mi, perm[i]).json])

C10_Witness ==
    /\ Done("insert")
    /\ task.order = <<"Age", "Name">>
    /\ task.data["Name"] = "Bob"
    /\ task.data["Age"] = "30"
    /\ out.sql = <<"INSERT", "INTO", "\"user\"", "(", "age", ",", "name", ")",
                   "VALUES", "(", "?", ",", "?", ")", "RETURNING", "id">>
    /\ out.args = <<"30", "Bob">>

(***************************************************************************)
(* C11: updateQuery returns the update values first, in the order of their  *)
(* "col = ?" entries of the SET list, then the arguments of the WHERE       *)
(* clause in the order the WHERE compiler produced them; the WHERE text and *)
(* arguments are those of sqlWhereClause for the condition.                 *)
(***************************************************************************)
\* The SET entries of the text, one per update value, in iteration order.
SetList(mi, order) ==
    SeparatedTokens([i \in 1..Len(order) |-> <<fieldsGet(mi, order[i]).json, "=", "?">>],
                    ",")

KnownData(t) ==
    /\ t.order # <<>>
    /\ \A i \in 1..Len(t.order) : fieldsGet(t.mi, t.order[i]) # NoField

C11_UpdateArgsOrder ==
    Done("update") /\ KnownData(task) =>
        LET w == sqlWhereClause(task.mi, task.cond)
            n == Len(task.order)
        IN /\ out.ok = w.ok
           /\ out.ok =>
                /\ out.sql = <<"UPDATE", quoteTableName(tableName[task.mi]), "SET">>
                             \o SetList(task.mi, task.order) \o w.sql
                /\ Len(out.args) = n + Len(w.args)
                /\ \A i \in 1..n : out.args[i] = task.data[task.order[i]]
                /\ \A i \in 1..Len(w.args) : out.args[n + i] = w.args[i]

\* Two values are updated under a condition with a scalar and an expanded
\* set-membership argument.
C11_Witness ==
    /\ Done("update") /\ out.ok
    /\ task.order = <<"Age", "Name">>
    /\ out.args = <<Scalar("30"), Scalar("Bob"), Scalar("1"), Scalar("2"), Scalar("3")>>

(***************************************************************************)
(* C12: the text of a compiled SELECT, INSERT, UPDATE or DELETE does not    *)
(* depend on the values: a compilation that differs only in the argument    *)
(* values of the condition leaves and in the values of the insert or update *)
(* map (slices keeping their lengths) yields the same text, and no value    *)
(* occurs in the text, only in the argument list.                           *)
(***************************************************************************)
StmtKinds == {"select", "insert", "update", "delete"}

\* The statement compiled for task t.
StmtCompile(t) ==
    CASE t.kind = "select" ->
           selectQuery(t.mi, t.paths, t.cond, t.orders, t.limit, t.offset)
      [] t.kind = "insert" -> insertQuery(t.mi, t.data, t.order)
      [] t.kind = "update" -> updateQuery(t.mi, t.data, t.order, t.cond)
      [] t.kind = "delete" -> deleteQuery(t.mi, t.cond)

\* Value v with each of its elements followed by sfx.
Revalue(v, sfx) == [v EXCEPT !.elems = [i \in DOMAIN v.elems |-> v.elems[i] \o sfx]]

RECURSIVE RevalueCond(_, _)
RevalueCond(c, sfx) ==
    [i \in DOMAIN c |->
        IF c[i].isCond THEN [c[i] EXCEPT !.cond = RevalueCond(c[i].cond, sfx)]
        ELSE [c[i] EXCEPT !.arg = Revalue(c[i].arg, sfx)]]

RevalueTask(t, sfx) ==
    [t EXCEPT !.cond = RevalueCond(t.cond, sfx),
              !.data = [k \in DOMAIN t.data |-> Revalue(t.data[k], sfx)]]

RECURSIVE CondValues(_)
\* The values of the leaves of condition c.
CondValues(c) ==
    IF c = <<>> THEN {}
    ELSE (IF c[1].isCond THEN CondValues(c[1].cond)
          ELSE {c[1].arg.elems[i] : i \in DOMAIN c[1].arg.elems})
         \cup CondValues(Tail(c))

TaskValues(t) ==
    CondValues(t.cond) \cup UNION {{t.data[k].elems[i] : i \in DOMAIN t.data[k].elems} :
                                     k \in DOMAIN t.data}

Suffixes == {"'", " OR 1=1"}

C12_TextIndependentOfValues ==
    pc = "done" /\ task.kind \in StmtKinds =>
        /\ \A sfx \in Suffixes :
              LET alt == StmtCompile(RevalueTask(task, sfx)) IN
              /\ alt.ok = out.ok
              /\ alt.sql = out.sql
              /\ alt.args = [i \in DOMAIN out.args |-> Revalue(out.args[i], sfx)]
        /\ out.ok => \A i \in DOMAIN out.sql : out.sql[i] \notin TaskValues(task)
        /\ out.ok => TaskValues(task) = {out.args[i].elems[1] : i \in DOMAIN out.args}

\* A SELECT whose condition has a scalar and a set-membership leaf.
C12_Witness ==
    /\ Done("select") /\ out.ok
    /\ out.args = <<Scalar("1"), Scalar("2"), Scalar("3")>>
    /\ StmtCompile(RevalueTask(task, "'")).args = <<Scalar("1'"), Scalar("2'"), Scalar("3'")>>

(***************************************************************************)
(* C15: in every statement compiled by selectQuery, updateQuery or          *)
(* deleteQuery, each table alias referenced by a field expression of the    *)
(* WHERE text (and, for SELECT, of the projection and of ORDER BY) is       *)
(* introduced by the table list of that statement, also when the path of a  *)
(* condition leaf crosses a relation.                                       *)
(***************************************************************************)
\* The alias and the field text that joinedFieldExpression writes for path.
FieldRef(mi, path) ==
    LET exprs == jsonizeExpr(mi, path)
        joins == generateTableJoins(mi, exprs).joins
        num == Len(joins)
    IN [alias |-> joins[num].alias, text |-> joins[num].alias \o "." \o exprs[num]]

\* The field expressions of the compiled statement of task t.
FieldRefs(t) ==
    LET leaves == getAllExpressions(t.mi, t.cond) IN
    {FieldRef(t.mi, leaves[i]) : i \in DOMAIN leaves}
    \cup {FieldRef(t.mi, t.paths[i]) : i \in DOMAIN t.paths}
    \cup {FieldRef(t.mi, t.orders[i].exprs) : i \in DOMAIN t.orders}

\* The aliases of the table list of the compiled statement: the joins of the
\* FROM clause of a SELECT, the one table named by an UPDATE or a DELETE.
IntroducedAliases ==
    CASE task.kind = "select" -> {out.joins[i].alias : i \in DOMAIN out.joins}
      [] task.kind = "update" -> {out.sql[2]}
      [] task.kind = "delete" -> {out.sql[3]}

Tokens(sql) == {sql[i] : i \in DOMAIN sql}

C15_AliasesIntroduced ==
    pc = "done" /\ task.kind \in {"select", "update", "delete"} /\ out.ok =>
        \A r \in FieldRefs(task) :
            r.text \in Tokens(out.sql) => r.alias \in IntroducedAliases

\* The same statement restricted to SELECT.
SelectAliasesIntroduced ==
    Done("select") /\ out.ok =>
        \A r \in FieldRefs(task) :
            r.text \in Tokens(out.sql) /\ r.alias \in IntroducedAliases

\* In an UPDATE or a DELETE every field expression of the condition is in
\* the text.
WhereRefsInText ==
    pc = "done" /\ task.kind \in {"update", "delete"} /\ out.ok =>
        \A r \in FieldRefs(task) : r.text \in Tokens(out.sql)

(***************************************************************************)
(* C13: the whole collection is guarded by its read/write lock: no reader   *)
(* (GetViewById, GetFirstViewForModel) reads the id map or an ordered list  *)
(* while a writer is inside AddView, so no reader observes a view that is   *)
(* in the id map but not yet in the ordered list of its model.              *)
(***************************************************************************)
C13_ReadersExcludedFromWriters ==
    /\ lastRead.op # "none" => ~lastRead.inside
    /\ (/\ lastRead.op = "GetViewById"
        /\ lastRead.status = "ok"
        /\ lastRead.result # NoView) => lastRead.listed

\* The writers do exclude each other: at most one is inside AddView, and it
\* holds the lock.
WritersExclusive ==
    \A w \in Writers : wpc[w] # "idle" => lock = w

(***************************************************************************)
(* C14: after any sequence of AddView calls the ordered list of each model  *)
(* is sorted by non-decreasing Priority and contains every added view, so   *)
(* GetFirstViewForModel returns a view of the smallest priority among the   *)
(* views of the model that have the requested type.                         *)
(***************************************************************************)
Sorted(list) ==
    \A i \in 1..(Len(list) - 1) : list[i].Priority <= list[i + 1].Priority

ListsContainAdded == \A v \in added : Listed(v)

FirstIsSmallest(list, viewType) ==
    \A i \in DOMAIN list :
        list[i].Type = viewType => FirstOfType(list, viewType).Priority <= list[i].Priority

C14_ListsSortedFirstIsSmallest ==
    lock = "none" =>
        /\ ListsContainAdded
        /\ \A m \in ViewModels :
              /\ Sorted(orderedViews[m])
              /\ \A viewType \in ViewTypes : FirstIsSmallest(orderedViews[m], viewType)

====
